---- MODULE Spec2Model ----
(***************************************************************************)
(* Model of huffman.py: construction of a HuffmanCode (greedy merge over a *)
(* heapq min-heap of PrefixTree nodes, then search_tree), encode with      *)
(* padding, and decode (removePadding, then repeated traverseTree).        *)
(*                                                                         *)
(* Symbols are the integers 0 .. NumSymbols-1 (the byte values), weights   *)
(* are small naturals standing for floats whose sums are exact, and a bit  *)
(* sequence is a sequence over {0, 1} (False, True).                       *)
(***************************************************************************)
EXTENDS Integers, Sequences, FiniteSets, TLC

\* ---- bounds ----
NumSymbols == 3      \* size of the symbol alphabet used by the model
MaxWeight  == 2      \* weights of the frequency table range over 0 .. MaxWeight
MaxLen     == 3      \* longest symbol sequence handed to encode
MaxPayload == 2      \* longest payload of a bit sequence handed to decode
MaxZeros   == 15     \* most trailing 0 bits of a bit sequence handed to decode

\* ---- program constants ----
SENTINEL == 1000     \* the "not yet found" baseline of __lt__
BYTE     == 8        \* bits per byte in paddingSuitableFor

Alphabet == 0 .. (NumSymbols - 1)
NoSymbol == -1       \* the "" symbol of an internal PrefixTree node
NoValue  == << -1 >> \* no value returned (yet)

VARIABLES frequencyTable, heap, tree, code_array, pc, op,
          plaintext, arg, fromEncode, encodedBits, byteArray, t, codeWord, ret

vars == << frequencyTable, heap, tree, code_array, pc, op,
           plaintext, arg, fromEncode, encodedBits, byteArray, t, codeWord, ret >>

\* ---- bit sequences ----
Zeros(n) == [i \in 1 .. n |-> 0]

IsPrefix(p, s) == Len(p) <= Len(s) /\ SubSeq(s, 1, Len(p)) = p

\* ---- PrefixTree ----
PrefixTree(frequency, symbol, kids) ==
    [frequency |-> frequency, symbol |-> symbol, kids |-> kids]

Leaf(frequency, symbol) == PrefixTree(frequency, symbol, << >>)

NoTree == PrefixTree(0, NoSymbol, << >>)

lChild(n) == n.kids[1]

rChild(n) == n.kids[2]

key(n) == n.frequency

isSingleton(n) == n.symbol # NoSymbol

fromTwoTrees(t1, t2) == PrefixTree(key(t1) + key(t2), NoSymbol, << t1, t2 >>)

Min2(a, b) == IF a <= b THEN a ELSE b

\* variant: the symbol of the leftmost leaf (the unreachable loop after the
\* return of find_smallest) in place of the smallest symbol of the subtree
RECURSIVE find_smallest_leftmost(_, _)
find_smallest_leftmost(n, smallest) ==
    IF isSingleton(n)
    THEN IF n.symbol < smallest THEN n.symbol ELSE smallest
    ELSE find_smallest_leftmost(lChild(n), smallest)

\* both recursive calls receive the same baseline; min of the two results
RECURSIVE find_smallest(_, _)
find_smallest(n, smallest) ==
    IF isSingleton(n)
    THEN IF n.symbol < smallest THEN n.symbol ELSE smallest
    ELSE Min2(find_smallest(lChild(n), smallest),
              find_smallest(rChild(n), smallest))

lt(a, b) ==
    IF key(a) = key(b)
    THEN find_smallest(a, SENTINEL) < find_smallest(b, SENTINEL)
    ELSE key(a) < key(b)

\* ---- heapq, positions counted from 0 as in the library ----
At(h, pos) == h[pos + 1]

Put(h, pos, item) == [h EXCEPT ![pos + 1] = item]

RECURSIVE siftdown_loop(_, _, _, _)
siftdown_loop(h, startpos, pos, newitem) ==
    IF pos > startpos
    THEN LET parentpos == (pos - 1) \div 2
             parent    == At(h, parentpos)
         IN  IF lt(newitem, parent)
             THEN siftdown_loop(Put(h, pos, parent), startpos, parentpos, newitem)
             ELSE Put(h, pos, newitem)
    ELSE Put(h, pos, newitem)

siftdown(h, startpos, pos) == siftdown_loop(h, startpos, pos, At(h, pos))

RECURSIVE siftup_loop(_, _, _, _)
siftup_loop(h, startpos, pos, newitem) ==
    LET endpos   == Len(h)
        childpos == 2 * pos + 1
        rightpos == childpos + 1
        c        == IF rightpos < endpos /\ ~ lt(At(h, childpos), At(h, rightpos))
                    THEN rightpos ELSE childpos
    IN  IF childpos < endpos
        THEN siftup_loop(Put(h, pos, At(h, c)), startpos, c, newitem)
        ELSE siftdown(Put(h, pos, newitem), startpos, pos)

siftup(h, pos) == siftup_loop(h, pos, pos, At(h, pos))

RECURSIVE heapify_loop(_, _)
heapify_loop(h, i) ==
    IF i < 0 THEN h ELSE heapify_loop(siftup(h, i), i - 1)

heapify(h) == heapify_loop(h, (Len(h) \div 2) - 1)

\* MinHeapWrapper.push
push(h, item) == siftdown(Append(h, item), 0, Len(h))

\* MinHeapWrapper.popMin: the item returned and the heap left behind
popMin(h) ==
    LET lastelt == h[Len(h)]
        rest    == SubSeq(h, 1, Len(h) - 1)
    IN  IF Len(rest) > 0
        THEN [item |-> rest[1], heap |-> siftup(Put(rest, 0, lastelt), 0)]
        ELSE [item |-> lastelt, heap |-> rest]

size(h) == Len(h)

\* ---- codeword table ----
\* variant: False appended on both branches
RECURSIVE search_tree_same_bit(_, _, _)
search_tree_same_bit(n, bitseq, symbols) ==
    IF isSingleton(n)
    THEN [symbols EXCEPT ![n.symbol] = bitseq]
    ELSE search_tree_same_bit(rChild(n), Append(bitseq, 0),
             search_tree_same_bit(lChild(n), Append(bitseq, 0), symbols))

RECURSIVE search_tree(_, _, _)
search_tree(n, bitseq, symbols) ==
    IF isSingleton(n)
    THEN [symbols EXCEPT ![n.symbol] = bitseq]
    ELSE LET b1 == Append(bitseq, 0)
             b2 == Append(bitseq, 1)
         IN  search_tree(rChild(n), b2, search_tree(lChild(n), b1, symbols))

\* the list  [BitStream()] * 256  every entry of which is the empty codeword
DefaultSymbols == [s \in Alphabet |-> << >>]

codewordFor(symbol) == code_array[symbol]

\* ---- padding ----
\* variant: no padding when the length is already a multiple of 8
paddingSuitableFor_exact(bits) ==
    LET n == (BYTE - (Len(bits) - (Len(bits) \div BYTE) * BYTE)) % BYTE
    IN  IF n > 0 THEN << 1 >> \o Zeros(n - 1) ELSE << >>

paddingSuitableFor(bits) ==
    LET n == BYTE - (Len(bits) - (Len(bits) \div BYTE) * BYTE)
    IN  IF n > 0 THEN << 1 >> \o Zeros(n - 1) ELSE << >>

\* variant: an exhausted scan returns the empty sequence instead of raising
RECURSIVE removePadding_lenient(_)
removePadding_lenient(bits) ==
    IF Len(bits) = 0
    THEN [ok |-> TRUE, bits |-> << >>]
    ELSE IF bits[Len(bits)] = 0
         THEN removePadding_lenient(SubSeq(bits, 1, Len(bits) - 1))
         ELSE [ok |-> TRUE, bits |-> SubSeq(bits, 1, Len(bits) - 1)]

\* bits[-1] of an empty bit sequence raises IndexError: ok is FALSE
RECURSIVE removePadding(_)
removePadding(bits) ==
    IF Len(bits) = 0
    THEN [ok |-> FALSE, bits |-> << >>]
    ELSE IF bits[Len(bits)] = 0
         THEN removePadding(SubSeq(bits, 1, Len(bits) - 1))
         ELSE [ok |-> TRUE, bits |-> SubSeq(bits, 1, Len(bits) - 1)]

\* ---- encode ----
RECURSIVE codewords(_)
codewords(plaintextBytes) ==
    IF plaintextBytes = << >>
    THEN << >>
    ELSE codewordFor(Head(plaintextBytes)) \o codewords(Tail(plaintextBytes))

encode(plaintextBytes) ==
    LET bits == codewords(plaintextBytes)
    IN  bits \o paddingSuitableFor(bits)

\* ---- one pass of the loop of traverseTree ----
\* variant: running out of bits ends the traversal as if a leaf were reached
traverseTree_partial(n, cw) ==
    IF isSingleton(n) \/ Len(cw) = 0
    THEN [kind |-> "leaf", t |-> n, codeWord |-> cw]
    ELSE [kind |-> "step",
          t |-> IF cw[1] = 0 THEN lChild(n) ELSE rChild(n),
          codeWord |-> Tail(cw)]

\* codeWord[0] of an empty bit sequence raises IndexError: kind is "raise"
traverseTree(n, cw) ==
    IF isSingleton(n)
    THEN [kind |-> "leaf", t |-> n, codeWord |-> cw]
    ELSE IF Len(cw) = 0
         THEN [kind |-> "raise", t |-> n, codeWord |-> cw]
         ELSE [kind |-> "step",
               t |-> IF cw[1] = 0 THEN lChild(n) ELSE rChild(n),
               codeWord |-> Tail(cw)]

\* ---- inputs ----
\* frequency tables in every order of enumeration of their keys
Tables ==
    UNION { { [i \in 1 .. k |-> << syms[i], w[i] >>] :
                syms \in { f \in [1 .. k -> Alphabet] :
                             \A i, j \in 1 .. k : i # j => f[i] # f[j] },
                w \in [1 .. k -> 0 .. MaxWeight] } : k \in 1 .. NumSymbols }

\* frequency tables enumerated in the order of their keys
TablesInKeyOrder ==
    { tb \in Tables : \A i, j \in 1 .. Len(tb) : i < j => tb[i][1] < tb[j][1] }

Keys == { frequencyTable[i][1] : i \in 1 .. Len(frequencyTable) }

SeqsUpTo(S, n) == UNION { [1 .. k -> S] : k \in 0 .. n }

Plaintexts == SeqsUpTo(Alphabet, MaxLen)

\* every bit sequence is all 0s, or a payload, a 1 and then 0s
BitInputs ==
    { Zeros(n) : n \in 0 .. (MaxZeros + 1) } \cup
    { p \o << 1 >> \o Zeros(z) : p \in SeqsUpTo({0, 1}, MaxPayload), z \in 0 .. MaxZeros }

MaxOut == MaxLen + 1   \* cap on the symbols one decode call accumulates

\* ---- construction: HuffmanCode.__init__ ----
Start(tables) ==
    /\ frequencyTable \in tables
    /\ heap = << >>
    /\ tree = NoTree
    /\ code_array = DefaultSymbols
    /\ pc = "init"
    /\ op = "none"
    /\ plaintext = << >>
    /\ arg = << >>
    /\ fromEncode = FALSE
    /\ encodedBits = << >>
    /\ byteArray = << >>
    /\ t = NoTree
    /\ codeWord = << >>
    /\ ret = NoValue

\* the calls are explored on the tables enumerated in key order
Init == Start(TablesInKeyOrder)

\* the construction is explored on the tables in every order of enumeration
InitBuild == Start(Tables)

CallVars == << op, plaintext, arg, fromEncode, encodedBits, byteArray, t, codeWord, ret >>

\* one Leaf per key, in the order of enumeration, then heapify
MakeHeap ==
    /\ pc = "init"
    /\ heap' = heapify([i \in 1 .. Len(frequencyTable) |->
                          Leaf(frequencyTable[i][2], frequencyTable[i][1])])
    /\ pc' = "merge"
    /\ UNCHANGED << frequencyTable, tree, code_array, CallVars >>

\* one pass of  while m.size() > 1
Merge ==
    /\ pc = "merge"
    /\ size(heap) > 1
    /\ LET p1 == popMin(heap)
           p2 == popMin(p1.heap)
           t3 == fromTwoTrees(p1.item, p2.item)
       IN  heap' = push(p2.heap, t3)
    /\ UNCHANGED << frequencyTable, tree, code_array, pc, CallVars >>

\* self.tree = m.popMin() and the codeword table
Finish ==
    /\ pc = "merge"
    /\ size(heap) <= 1
    /\ LET p == popMin(heap)
       IN  /\ tree' = p.item
           /\ heap' = p.heap
           /\ code_array' = search_tree(p.item, << >>, DefaultSymbols)
    /\ pc' = "ready"
    /\ UNCHANGED << frequencyTable, CallVars >>

\* ---- HuffmanCode.encode ----
Encode ==
    /\ pc = "ready"
    /\ \E s \in Plaintexts :
         /\ plaintext' = s
         /\ ret' = encode(s)
    /\ op' = "encode"
    /\ pc' = "returned"
    /\ arg' = << >>
    /\ fromEncode' = FALSE
    /\ UNCHANGED << frequencyTable, heap, tree, code_array,
                    encodedBits, byteArray, t, codeWord >>

\* ---- HuffmanCode.decode ----
\* encodedBits = self.removePadding(encodedAndPaddedBits); byteArray = b''
DecodeBegin(bits) ==
    /\ arg' = bits
    /\ op' = "decode"
    /\ LET r == removePadding(bits)
       IN  /\ encodedBits' = r.bits
           /\ pc' = IF r.ok THEN "decode_loop" ELSE "raised"
    /\ byteArray' = << >>
    /\ ret' = NoValue
    /\ t' = NoTree
    /\ codeWord' = << >>
    /\ UNCHANGED << frequencyTable, heap, tree, code_array >>

\* decode called on an arbitrary bit sequence
DecodeInput ==
    /\ pc = "ready"
    /\ \E bits \in BitInputs : DecodeBegin(bits)
    /\ plaintext' = << >>
    /\ fromEncode' = FALSE

\* decode called on what encode has just returned
DecodeEncoded ==
    /\ pc = "returned"
    /\ op = "encode"
    /\ DecodeBegin(ret)
    /\ fromEncode' = TRUE
    /\ UNCHANGED plaintext

\* the test of  while len(encodedBits) > 0  and the call of traverseTree
DecodeLoop ==
    /\ pc = "decode_loop"
    /\ IF Len(encodedBits) > 0
       THEN /\ t' = tree
            /\ codeWord' = encodedBits
            /\ pc' = "traverse"
            /\ ret' = ret
       ELSE /\ ret' = byteArray
            /\ pc' = "returned"
            /\ UNCHANGED << t, codeWord >>
    /\ UNCHANGED << frequencyTable, heap, tree, code_array, op, plaintext, arg,
                    fromEncode, encodedBits, byteArray >>

\* one pass of the loop of traverseTree, or its return to decode
TraverseStep ==
    /\ pc = "traverse"
    /\ LET r == traverseTree(t, codeWord)
       IN  CASE r.kind = "leaf" ->
                  /\ Len(byteArray) < MaxOut
                  /\ byteArray' = Append(byteArray, r.t.symbol)
                  /\ encodedBits' = r.codeWord
                  /\ pc' = "decode_loop"
                  /\ UNCHANGED << t, codeWord >>
            [] r.kind = "step" ->
                  /\ t' = r.t
                  /\ codeWord' = r.codeWord
                  /\ UNCHANGED << pc, encodedBits, byteArray >>
            [] r.kind = "raise" ->
                  /\ pc' = "raised"
                  /\ UNCHANGED << t, codeWord, encodedBits, byteArray >>
    /\ UNCHANGED << frequencyTable, heap, tree, code_array, op, plaintext, arg,
                    fromEncode, ret >>

\* the caller takes the outcome; the compiled code is ready for the next call
Done ==
    /\ pc \in {"returned", "raised"}
    /\ pc' = "ready"
    /\ op' = "none"
    /\ plaintext' = << >>
    /\ arg' = << >>
    /\ fromEncode' = FALSE
    /\ encodedBits' = << >>
    /\ byteArray' = << >>
    /\ t' = NoTree
    /\ codeWord' = << >>
    /\ ret' = NoValue
    /\ UNCHANGED << frequencyTable, heap, tree, code_array >>

Next ==
    \/ MakeHeap
    \/ Merge
    \/ Finish
    \/ Encode
    \/ DecodeInput
    \/ DecodeEncoded
    \/ DecodeLoop
    \/ TraverseStep
    \/ Done

Spec == Init /\ [][Next]_vars

NextBuild ==
    \/ MakeHeap
    \/ Merge
    \/ Finish

SpecBuild == InitBuild /\ [][NextBuild]_vars

\* ---- reference definitions used by the properties ----
Weight(s) == LET i == CHOOSE j \in 1 .. Len(frequencyTable) : frequencyTable[j][1] = s
             IN  frequencyTable[i][2]

Built == pc \notin {"init", "merge"}

Covered(s) == \A i \in 1 .. Len(s) : s[i] \in Keys

RECURSIVE SumWeights(_)
SumWeights(i) == IF i = 0 THEN 0 ELSE frequencyTable[i][2] + SumWeights(i - 1)

\* weights are relative: a table can be normalised to sum 1.0 iff their total is not 0
ValidTable == SumWeights(Len(frequencyTable)) > 0

RECURSIVE TotalBits(_)
TotalBits(s) == IF s = << >> THEN 0 ELSE Len(code_array[Head(s)]) + TotalBits(Tail(s))

RECURSIVE Leaves(_)
Leaves(n) == IF n.kids = << >> THEN {n.symbol} ELSE Leaves(n.kids[1]) \cup Leaves(n.kids[2])

MinLeaf(n) == CHOOSE s \in Leaves(n) : \A u \in Leaves(n) : s <= u

Before(a, b) ==
    \/ a.frequency < b.frequency
    \/ a.frequency = b.frequency /\ MinLeaf(a) < MinLeaf(b)

Least(S) == CHOOSE a \in S : \A b \in S \ {a} : Before(a, b)

RECURSIVE GreedyTree(_)
GreedyTree(S) ==
    IF Cardinality(S) = 1
    THEN CHOOSE a \in S : TRUE
    ELSE LET a == Least(S)
             b == Least(S \ {a})
         IN  GreedyTree((S \ {a, b}) \cup
                 {[frequency |-> a.frequency + b.frequency, symbol |-> NoSymbol,
                   kids |-> << a, b >>]})

LeafSet == { [frequency |-> frequencyTable[i][2], symbol |-> frequencyTable[i][1],
              kids |-> << >>] : i \in 1 .. Len(frequencyTable) }

QueueSet == { heap[i] : i \in 1 .. Len(heap) }

\* ---- properties ----

\* C1: decode(encode(s)) returns exactly s for every symbol sequence s whose
\* symbols are all keys of the valid frequency table the code was built from.
C1_RoundTrip ==
    (op = "decode" /\ fromEncode /\ ValidTable /\ Covered(plaintext)
        /\ pc \in {"returned", "raised"})
        => (pc = "returned" /\ ret = plaintext)

\* C2: in the codeword table of a constructed code, no codeword of a symbol of
\* the table is a prefix of the codeword of another symbol of the table.
C2_PrefixFree ==
    Built => \A a, b \in Keys :
                a # b => /\ ~ IsPrefix(code_array[a], code_array[b])
                         /\ ~ IsPrefix(code_array[b], code_array[a])

C2_Witness ==
    /\ pc = "ready"
    /\ \E a, b \in Keys : Len(code_array[a]) = 1 /\ Len(code_array[b]) = 2

\* C3: what encode returns has a length that is a positive multiple of 8 and
\* ends with a 1 followed only by 0s, 8 - r bits long when r # 0 and 8 bits long
\* when r = 0, r being the number of codeword bits modulo 8.
C3_Padding ==
    (op = "encode" /\ pc = "returned") =>
        LET total  == TotalBits(plaintext)
            r      == total % 8
            padLen == IF r # 0 THEN 8 - r ELSE 8
        IN  /\ Len(ret) > 0
            /\ Len(ret) % 8 = 0
            /\ padLen \in 1 .. 8
            /\ Len(ret) = total + padLen
            /\ ret[total + 1] = 1
            /\ \A i \in (total + 2) .. Len(ret) : ret[i] = 0

C3_Witness ==
    /\ op = "encode"
    /\ pc = "returned"
    /\ TotalBits(plaintext) = 5
    /\ Len(ret) = 8
    /\ SubSeq(ret, 6, 8) = << 1, 0, 0 >>

\* C4: for the code built from the table {X: 1.0} the codeword of X is empty,
\* encode("XXX") is 10000000 and decode of that returns "XXX".
C4_ScenarioB ==
    (Len(frequencyTable) = 1 /\ frequencyTable[1][2] = 1) =>
        LET X   == frequencyTable[1][1]
            XXX == << X, X, X >>
        IN  /\ Built => code_array[X] = << >>
            /\ (op = "encode" /\ pc = "returned" /\ plaintext = XXX)
                  => ret = << 1, 0, 0, 0, 0, 0, 0, 0 >>
            /\ (op = "decode" /\ fromEncode /\ plaintext = XXX
                    /\ pc \in {"returned", "raised"})
                  => (pc = "returned" /\ ret = XXX)

\* C5: encode of a sequence with a symbol that is not a key of the frequency
\* table, or whose weight is zero, fails and returns no bit sequence.
C5_UnknownSymbol ==
    (op = "encode" /\ pc = "returned") =>
        \A i \in 1 .. Len(plaintext) :
            plaintext[i] \in Keys /\ Weight(plaintext[i]) > 0

\* C6: decode of a non-empty bit sequence of 0s only ends in an error and
\* returns no symbol sequence.
C6_AllZero ==
    (op = "decode" /\ arg # << >> /\ \A i \in 1 .. Len(arg) : arg[i] = 0)
        => (pc = "raised" /\ ret = NoValue)

C6_Witness ==
    /\ op = "decode"
    /\ arg = Zeros(16)
    /\ pc = "raised"

\* C7: when the bits run out at an internal node in the middle of a traversal,
\* decode ends in an error and returns nothing; decode returns only from the
\* head of its loop, where the traversal restarts at the root, with no bits
\* left, and then returns the symbols decoded.
C7_Truncation ==
    [][ /\ (pc = "traverse" /\ ~ isSingleton(t) /\ codeWord = << >>)
            => (pc' = "raised" /\ ret' = NoValue)
        /\ (op' = "decode" /\ pc' = "raised") => ret' = NoValue
        /\ (op' = "decode" /\ pc' = "returned")
            => (pc = "decode_loop" /\ encodedBits = << >> /\ ret' = byteArray) ]_vars

C7_Witness ==
    /\ op = "decode"
    /\ pc = "raised"
    /\ ~ isSingleton(t)
    /\ t # tree
    /\ codeWord = << >>
    /\ Len(byteArray) > 0
    /\ ret = NoValue

\* C8: for a non-empty bit sequence whose length is a multiple of 8 and that
\* has a 1 bit, removePadding returns a prefix of it that is 1 to 8 bits shorter.
C8_RemovePadding ==
    (op = "decode" /\ pc = "decode_loop" /\ byteArray = << >>
        /\ arg # << >> /\ Len(arg) % 8 = 0 /\ \E i \in 1 .. Len(arg) : arg[i] = 1)
        => /\ IsPrefix(encodedBits, arg)
           /\ (Len(arg) - Len(encodedBits)) \in 1 .. 8

\* C9: the queue is strictly and totally ordered by weight and then by the
\* smallest symbol of the subtree; every merge makes the least node of the queue
\* the left child and the next least the right child; the tree and the codeword
\* table built depend on the frequency table only, not on the order in which its
\* entries are enumerated.
C9_Deterministic ==
    /\ [](pc = "merge" =>
            /\ Cardinality(QueueSet) = Len(heap)
            /\ \A a, b \in QueueSet :
                  /\ lt(a, b) <=> Before(a, b)
                  /\ a # b => (lt(a, b) # lt(b, a))
                  /\ ~ lt(a, a)
            /\ \A a, b, c \in QueueSet : (lt(a, b) /\ lt(b, c)) => lt(a, c))
    /\ [](Built =>
            /\ tree = GreedyTree(LeafSet)
            /\ code_array = search_tree(GreedyTree(LeafSet), << >>, DefaultSymbols))
    /\ [][ (pc = "merge" /\ pc' = "merge") =>
             LET a == Least(QueueSet)
                 b == Least(QueueSet \ {a})
             IN  QueueSet' = (QueueSet \ {a, b}) \cup
                     {[frequency |-> a.frequency + b.frequency, symbol |-> NoSymbol,
                       kids |-> << a, b >>]} ]_vars

C9_Witness ==
    /\ pc = "ready"
    /\ ~ isSingleton(tree)
    /\ ~ isSingleton(lChild(tree))
    /\ isSingleton(rChild(tree))
    /\ key(lChild(tree)) = key(rChild(tree))
    /\ lChild(lChild(tree)).symbol > rChild(tree).symbol
    /\ frequencyTable[1][1] > frequencyTable[2][1]

\* C10: every pass of the loop of decode consumes at least one bit, so that
\* decode terminates.
C10_Terminates ==
    [][ (pc = "traverse" /\ pc' = "decode_loop")
            => Len(encodedBits') < Len(encodedBits) ]_vars

====
